---- MODULE Spec2Model ----
(***************************************************************************)
(* Model of asciinema_edit.Recording: the in-memory event stream and the   *)
(* transformations keep, excise, renormalize, quantize, speed, smush and   *)
(* del_in_word.                                                            *)
(*                                                                         *)
(* Time is counted in ticks, TicksPerSecond ticks to the second.  The      *)
(* source's float arithmetic is modelled by exact integer arithmetic on    *)
(* the tick grid: additions, subtractions and min are exact, and a call of *)
(* speed is modelled only where delta * (1.0 / factor) falls on the grid.  *)
(* An event is the Python list [timestamp, kind, data]; the field id is    *)
(* the identity of that list object (its position in the file read by      *)
(* __init__), data is the string as a sequence of characters.  A body that *)
(* holds the same list object twice holds two events of the same id, and   *)
(* an assignment to the timestamp of one is an assignment to both.         *)
(* Sequences are 1-based here and 0-based in the source: index values      *)
(* (bisection results, slice bounds, loop counters) keep the source's      *)
(* 0-based values and are shifted by one only where a sequence is read.    *)
(***************************************************************************)
EXTENDS Integers, Sequences, FiniteSets, TLC

VARIABLES
    header,   \* Recording.header
    body,     \* Recording.body
    pre,      \* history: header and body as they were before the last call
    op,       \* history: the last call, its arguments
    err,      \* the exception the last call ended in, "" for none
    budget,   \* calls the caller still makes on this Recording
    audit     \* whether the history variables pre and op are recorded

vars == <<header, body, pre, op, err, budget, audit>>

(***************************************************************************)
(* Bounds of the model.                                                    *)
(***************************************************************************)
\* events in a stream as read
MaxLen == 3
\* the latest timestamp of a stream as read and of a range, in seconds
MaxStamp == 3
\* ranges in one call
MaxRanges == 2
\* calls in a chain
MaxCalls == 2
\* events in a typed stream
MaxWordLen == 5
\* the grid of the timestamps
TicksPerSecond == 2

Min(a, b) == IF a < b THEN a ELSE b

Seconds(n) == n * TicksPerSecond

(***************************************************************************)
(* Python building blocks.                                                 *)
(***************************************************************************)
\* s[lo:hi] for 0 <= lo, 0 <= hi
Slice(s, lo, hi) == SubSeq(s, lo + 1, Min(hi, Len(s)))

\* str.isalnum() over the characters the model uses
AlnumChars == {"a", "b", "x"}

isalnum(c) == Len(c) > 0 /\ \A k \in 1..Len(c) : c[k] \in AlnumChars

RECURSIVE bisect_loop(_, _, _, _)
bisect_loop(a, x, lo, hi) ==
    IF lo < hi
    THEN LET mid == (lo + hi) \div 2
         IN  IF a[mid + 1] < x
             THEN bisect_loop(a, x, mid + 1, hi)
             ELSE bisect_loop(a, x, lo, mid)
    ELSE lo

bisect_left(a, x) == bisect_loop(a, x, 0, Len(a))

\* [elem[0] for elem in self.body]
timestamps(b) == [i \in 1..Len(b) |-> b[i].ts]

\* body[i][0] = t, i counted from 0: the list object at i gets the timestamp
\* wherever the body holds it
SetTs(b, i, t) ==
    [j \in 1..Len(b) |-> IF b[j].id = b[i + 1].id THEN [b[j] EXCEPT !.ts = t] ELSE b[j]]

\* for idx in range(1, len(body)): body[idx][0] = body[idx - 1][0] + deltas[idx]
RECURSIVE RebuildFrom(_, _, _)
RebuildFrom(b, deltas, idx) ==
    IF idx >= Len(b) THEN b
    ELSE RebuildFrom(SetTs(b, idx, b[idx].ts + deltas[idx + 1]), deltas, idx + 1)

Rebuild(b, deltas) == RebuildFrom(b, deltas, 1)

Ok(b) == [body |-> b, err |-> ""]
Raise(b, e) == [body |-> b, err |-> e]

(***************************************************************************)
(* renormalize                                                             *)
(***************************************************************************)
\* for line in self.body: line[0] = line[0] - first_start
RECURSIVE ShiftFrom(_, _, _)
ShiftFrom(b, i, first_start) ==
    IF i >= Len(b) THEN b
    ELSE ShiftFrom(SetTs(b, i, b[i + 1].ts - first_start), i + 1, first_start)

\* a slip: the stream is shifted by its last timestamp
renormalizeToLast(b) ==
    IF Len(b) = 0
    THEN Raise(b, "IndexError")
    ELSE Ok(ShiftFrom(b, 0, b[Len(b)].ts))

renormalize(b) ==
    IF Len(b) = 0
    THEN Raise(b, "IndexError")      \* self.body[0]
    ELSE Ok(ShiftFrom(b, 0, b[1].ts))

(***************************************************************************)
(* parse_ranges_to_indices                                                 *)
(***************************************************************************)
RECURSIVE InsertByStart(_, _)
InsertByStart(sorted, r) ==
    IF Len(sorted) = 0 THEN <<r>>
    ELSE IF r[1] < sorted[Len(sorted)][1]
         THEN Append(InsertByStart(SubSeq(sorted, 1, Len(sorted) - 1), r),
                     sorted[Len(sorted)])
         ELSE Append(sorted, r)

\* sorted(idx_ranges, key=lambda tup: tup[0]): stable
RECURSIVE SortedByStart(_)
SortedByStart(rs) ==
    IF Len(rs) = 0 THEN <<>>
    ELSE InsertByStart(SortedByStart(SubSeq(rs, 1, Len(rs) - 1)), rs[Len(rs)])

IdxRange(b, rng) ==
    <<bisect_left(timestamps(b), rng[1]), bisect_left(timestamps(b), rng[2])>>

parse_ranges_to_indices(b, ranges) ==
    SortedByStart([k \in 1..Len(ranges) |-> IdxRange(b, ranges[k])])

(***************************************************************************)
(* quantize                                                                *)
(***************************************************************************)
DefaultMaxDelay == Seconds(1)

\* a slip: the gaps are taken as they are, the cap forgotten
QuantizeDeltasUncapped(ts, max_delay) ==
    [i \in 1..Len(ts) |-> IF i = 1 THEN 0 ELSE ts[i] - ts[i - 1]]

QuantizeDeltas(ts, max_delay) ==
    [i \in 1..Len(ts) |-> IF i = 1 THEN 0 ELSE Min(max_delay, ts[i] - ts[i - 1])]

quantize(b, max_delay) == Ok(Rebuild(b, QuantizeDeltas(timestamps(b), max_delay)))

(***************************************************************************)
(* speed                                                                   *)
(***************************************************************************)
Abs(n) == IF n < 0 THEN -n ELSE n

\* delt * speedup, speedup = 1.0 / factor, where the product is on the grid
Scale(delt, factor) ==
    IF factor < 0 THEN -(delt \div (-factor)) ELSE delt \div factor

RawDeltas(ts) == [i \in 1..Len(ts) |-> IF i = 1 THEN 0 ELSE ts[i] - ts[i - 1]]

\* a slip: the slice takes the delta at endidx too
ScaleSliceInclusive(deltas, idx_range, factor) ==
    [i \in 1..Len(deltas) |->
        IF idx_range[1] <= i - 1 /\ i - 1 <= idx_range[2]
        THEN Scale(deltas[i], factor)
        ELSE deltas[i]]

\* deltas[startidx:endidx] = map(lambda delt: delt * speedup, deltas[startidx:endidx])
ScaleSlice(deltas, idx_range, factor) ==
    [i \in 1..Len(deltas) |->
        IF idx_range[1] <= i - 1 /\ i - 1 < idx_range[2]
        THEN Scale(deltas[i], factor)
        ELSE deltas[i]]

RECURSIVE ScaleRanges(_, _, _)
ScaleRanges(deltas, idx_ranges, factor) ==
    IF Len(idx_ranges) = 0 THEN deltas
    ELSE ScaleRanges(ScaleSlice(deltas, Head(idx_ranges), factor),
                     Tail(idx_ranges), factor)

speed(b, ranges, factor) ==
    IF factor = 0
    THEN Raise(b, "ZeroDivisionError")
    ELSE Ok(Rebuild(b, ScaleRanges(RawDeltas(timestamps(b)),
                                   parse_ranges_to_indices(b, ranges), factor)))

\* every product delt * speedup of the call is on the tick grid
RECURSIVE OnGrid(_, _, _)
OnGrid(deltas, idx_ranges, factor) ==
    \/ Len(idx_ranges) = 0
    \/ /\ Len(idx_ranges) > 0
       /\ \A i \in 1..Len(deltas) :
              (Head(idx_ranges)[1] <= i - 1 /\ i - 1 < Head(idx_ranges)[2])
                  => deltas[i] % Abs(factor) = 0
       /\ OnGrid(ScaleSlice(deltas, Head(idx_ranges), factor), Tail(idx_ranges), factor)

SpeedOnGrid(b, ranges, factor) ==
    factor # 0 =>
        OnGrid(RawDeltas(timestamps(b)), parse_ranges_to_indices(b, ranges), factor)

(***************************************************************************)
(* smush                                                                   *)
(***************************************************************************)
\* for ln in self.body: if ln[0] < start: ln[0] = 0
RECURSIVE SmushFrom(_, _, _)
SmushFrom(b, i, start) ==
    IF i >= Len(b) THEN b
    ELSE SmushFrom(IF b[i + 1].ts < start THEN SetTs(b, i, 0) ELSE b, i + 1, start)

SmushZero(b, start) == SmushFrom(b, 0, start)

\* a slip: the closing quantize() is left out
smushNoQuantize(b, start) == Ok(SmushZero(b, start))

smush(b, start) == quantize(SmushZero(b, start), DefaultMaxDelay)

(***************************************************************************)
(* keep and excise end in renormalize(); quantize()                        *)
(***************************************************************************)
RenormalizeQuantize(b) ==
    LET r == renormalize(b)
    IN  IF r.err # "" THEN r ELSE quantize(r.body, DefaultMaxDelay)

\* optimized: the interpreter runs with -O and skips assert statements
keep(b, ranges, optimized) ==
    IF ~optimized
    THEN Raise(b, "TypeError")       \* assert len(ranges == 1): len(False)
    ELSE IF Len(ranges) = 0
         THEN Raise(b, "IndexError") \* ranges[0]
         ELSE LET idx == IdxRange(b, ranges[1])
              IN  RenormalizeQuantize(Slice(b, idx[1], idx[2] + 1))

RECURSIVE Between(_, _, _)
\* for i in range(len(idx_ranges) - 1): new_body += body[idx_ranges[i][1] : idx_ranges[i + 1][0]]
Between(b, idx_ranges, i) ==
    IF i >= Len(idx_ranges) - 1 THEN <<>>
    ELSE Slice(b, idx_ranges[i + 1][2], idx_ranges[i + 2][1])
             \o Between(b, idx_ranges, i + 1)

\* a slip: the event at the last range's endidx is cut as well
ExciseBodyInclusive(b, idx_ranges) ==
    Slice(b, 0, idx_ranges[1][1])
        \o Between(b, idx_ranges, 0)
        \o Slice(b, idx_ranges[Len(idx_ranges)][2] + 1, Len(b))

ExciseBody(b, idx_ranges) ==
    Slice(b, 0, idx_ranges[1][1])
        \o Between(b, idx_ranges, 0)
        \o Slice(b, idx_ranges[Len(idx_ranges)][2], Len(b))

excise(b, ranges) ==
    IF Len(ranges) = 0
    THEN Raise(b, "IndexError")      \* idx_ranges[0]
    ELSE RenormalizeQuantize(ExciseBody(b, parse_ranges_to_indices(b, ranges)))

(***************************************************************************)
(* del_in_word                                                             *)
(***************************************************************************)
\* for j in range(len(word)): del self.body[word_start]
DeleteRun(b, word_start, n) ==
    IF n <= Len(b) - word_start
    THEN Ok(Slice(b, 0, word_start) \o Slice(b, word_start + n, Len(b)))
    ELSE Raise(Slice(b, 0, word_start), "IndexError")

\* the loop over enumerate(self.body): i is the iterator's position, which the
\* deletions do not move back
RECURSIVE DelLoop(_, _, _, _, _)
DelLoop(b, i, word, word_start, to_delete) ==
    IF i >= Len(b) THEN Ok(b)
    ELSE LET e == b[i + 1]
             c == e.data
         IN  IF e.kind = "i" /\ isalnum(c)
             THEN DelLoop(b, i + 1, word \o c,
                          IF word = <<>> THEN i ELSE word_start, to_delete)
             ELSE IF word # <<>> /\ word = to_delete
                  THEN LET d == DeleteRun(b, word_start, Len(word))
                       IN  IF d.err # "" THEN d
                           ELSE DelLoop(d.body, i + 1, <<>>, word_start, to_delete)
                  ELSE DelLoop(b, i + 1, <<>>, word_start, to_delete)

del_in_word(b, to_delete) == DelLoop(b, 0, <<>>, 0, to_delete)

(***************************************************************************)
(* The inputs the model draws.                                             *)
(***************************************************************************)
Stamps == {Seconds(k) : k \in 0..MaxStamp}

\* kind and data of an event: an output, a typed letter, a typed newline
Output == [kind |-> "o", data |-> <<"x">>]
Typed(c) == [kind |-> "i", data |-> <<c>>]

Event(t, shape, i) == [ts |-> t, kind |-> shape.kind, data |-> shape.data, id |-> i]

\* the bodies __init__ reads: any timestamps, sorted or not
Streams(shapes) ==
    UNION {{[i \in 1..n |-> Event(t[i], s[i], i)] :
                t \in [1..n -> Stamps], s \in [1..n -> shapes]} : n \in 0..MaxLen}

\* one event a second, the keystrokes of a session
WordStreams ==
    UNION {{[i \in 1..n |-> Event(Seconds(i), s[i], i)] :
                s \in [1..n -> {Typed("a"), Typed("b"), Typed("\n"), Output}]}
               : n \in 0..MaxWordLen}

RangePoints == {Seconds(k) : k \in 1..MaxStamp}
\* the ranges with start <= end, and one range with start after end
Ranges ==
    {r \in RangePoints \X RangePoints : r[1] <= r[2]}
        \cup {<<Seconds(MaxStamp), Seconds(1)>>}
RangeLists == UNION {[1..n -> Ranges] : n \in 0..MaxRanges}
Delays == {-Seconds(1), 0, Seconds(1)}
Factors == {0, 1, 2}
Targets == {<<"a">>, <<"b">>, <<"a", "b">>}

Sorted(ts) == \A i \in 1..(Len(ts) - 1) : ts[i] <= ts[i + 1]
NonNegative(ts) == \A i \in 1..Len(ts) : ts[i] >= 0
Monotone(b) == Sorted(timestamps(b)) /\ NonNegative(timestamps(b))

\* no two ranges overlap: of any two, one ends where the other starts or before
NonOverlapping(ranges) ==
    \A j, k \in 1..Len(ranges) :
        j < k => (ranges[j][2] <= ranges[k][1] \/ ranges[k][2] <= ranges[j][1])

\* every range has start <= end and the list is sorted and non-overlapping:
\* each range ends where the next one starts or before
RangesOk(ranges) ==
    /\ \A k \in 1..Len(ranges) : ranges[k][1] <= ranges[k][2]
    /\ \A k \in 1..(Len(ranges) - 1) : ranges[k][2] <= ranges[k + 1][1]

OrderedLists == {ranges \in RangeLists : RangesOk(ranges)}

NoCall == [name |-> "none", ranges |-> <<>>, num |-> 0, word |-> <<>>, optimized |-> FALSE]

(***************************************************************************)
(* The state after Recording.__init__.                                     *)
(***************************************************************************)
InitWith(streams, calls, recorded) ==
    /\ header = "header"
    /\ body \in streams
    /\ pre = [header |-> header, body |-> body]
    /\ op = NoCall
    /\ err = ""
    /\ budget = calls
    /\ audit = recorded

\* the command line: any one transformation on a stream as read
Init == InitWith(Streams({Output, Typed("a")}), 1, TRUE)

\* one timestamp transformation on a stream as read: these read neither kind
\* nor data
TimedInit == InitWith(Streams({Output}), 1, TRUE)

\* one range transformation on a sorted stream: the bisection expects one
SortedInit == InitWith({b \in Streams({Output}) : Monotone(b)}, 1, TRUE)

\* a caller chaining transformations on a sorted stream
ChainInit ==
    InitWith({b \in Streams({Output, Typed("a")}) : Monotone(b)}, MaxCalls, FALSE)

\* del_in_word on a typed stream
WordInit == InitWith(WordStreams, 1, TRUE)

(***************************************************************************)
(* One action per method, its arguments drawn from the sets given.  A call *)
(* is made while no exception has ended the run; an exception leaves       *)
(* self.body as the method had left it.                                    *)
(***************************************************************************)
CanCall == err = "" /\ budget > 0

Call(call, r) ==
    /\ body' = r.body
    /\ err' = r.err
    /\ budget' = budget - 1
    /\ pre' = IF audit THEN [header |-> header, body |-> body] ELSE pre
    /\ op' = IF audit THEN call ELSE op
    /\ UNCHANGED <<header, audit>>

Renormalize ==
    /\ CanCall
    /\ Call([NoCall EXCEPT !.name = "renormalize"], renormalize(body))

Quantize(delays) ==
    /\ CanCall
    /\ \E max_delay \in delays :
        Call([NoCall EXCEPT !.name = "quantize", !.num = max_delay],
             quantize(body, max_delay))

Speed(lists, factors) ==
    /\ CanCall
    /\ \E ranges \in lists, factor \in factors :
        /\ SpeedOnGrid(body, ranges, factor)
        /\ Call([NoCall EXCEPT !.name = "speed", !.ranges = ranges, !.num = factor],
                speed(body, ranges, factor))

Smush ==
    /\ CanCall
    /\ \E start \in RangePoints :
        Call([NoCall EXCEPT !.name = "smush", !.num = start], smush(body, start))

Keep(lists) ==
    /\ CanCall
    /\ \E ranges \in lists, optimized \in BOOLEAN :
        Call([NoCall EXCEPT !.name = "keep", !.ranges = ranges, !.optimized = optimized],
             keep(body, ranges, optimized))

Excise(lists) ==
    /\ CanCall
    /\ \E ranges \in lists :
        Call([NoCall EXCEPT !.name = "excise", !.ranges = ranges],
             excise(body, ranges))

DelInWord ==
    /\ CanCall
    /\ \E to_delete \in Targets :
        Call([NoCall EXCEPT !.name = "del_in_word", !.word = to_delete],
             del_in_word(body, to_delete))

\* any call with any arguments
Next ==
    \/ Renormalize
    \/ Quantize(Delays)
    \/ Speed(RangeLists, Factors)
    \/ Smush
    \/ Excise(RangeLists)
    \/ Keep(RangeLists)
    \/ DelInWord

\* the calls a chain is made of: renormalize, quantize(maxDelay >= 0),
\* speed(ranges, factor > 0), smush, excise(ranges) and del_in_word, every
\* range list sorted and non-overlapping with start <= end in each range
ChainNext ==
    \/ Renormalize
    \/ Quantize({d \in Delays : d >= 0})
    \/ Speed(OrderedLists, {f \in Factors : f > 0})
    \/ Smush
    \/ Excise(OrderedLists)
    \/ DelInWord

Spec == Init /\ [][Next]_vars

SpecChain == ChainInit /\ [][ChainNext]_vars

SpecQuantize == TimedInit /\ [][Quantize(Delays)]_vars

SpecSmush == TimedInit /\ [][Smush]_vars

SpecSpeed == SortedInit /\ [][Speed(RangeLists, Factors)]_vars

SpecKeep == SortedInit /\ [][Keep(RangeLists)]_vars

SpecExcise == SortedInit /\ [][Excise(RangeLists)]_vars

SpecWord == WordInit /\ [][DelInWord]_vars

(***************************************************************************)
(* Vocabulary of the properties.                                           *)
(***************************************************************************)
Called(name) == op.name = name

\* the events of b without their timestamps
Untimed(b) ==
    [i \in 1..Len(b) |-> [kind |-> b[i].kind, data |-> b[i].data, id |-> b[i].id]]

Gap(b, i) == b[i].ts - b[i - 1].ts

\* the resolved index ranges of the last call, in the order of its arguments
Resolved == [k \in 1..Len(op.ranges) |-> IdxRange(pre.body, op.ranges[k])]

\* the 0-based index i lies in some resolved [startIndex, endIndex)
InResolved(i) == \E k \in 1..Len(op.ranges) : Resolved[k][1] <= i /\ i < Resolved[k][2]

\* an Input event carrying a single alphanumeric character
IsChar(e) == e.kind = "i" /\ Len(e.data) = 1 /\ e.data[1] \in AlnumChars

RECURSIVE Spelled(_, _, _)
Spelled(b, i, j) == IF i > j THEN <<>> ELSE b[i].data \o Spelled(b, i + 1, j)

\* the maximal runs of character events of b that spell target and are closed
\* by a following event, as pairs of 1-based positions
TargetRuns(b, target) ==
    {r \in (1..Len(b)) \X (1..Len(b)) :
        /\ r[1] <= r[2]
        /\ \A k \in r[1]..r[2] : IsChar(b[k])
        /\ (r[1] = 1 \/ ~IsChar(b[r[1] - 1]))
        /\ r[2] < Len(b)
        /\ ~IsChar(b[r[2] + 1])
        /\ Spelled(b, r[1], r[2]) = target}

TargetIds(b, target) ==
    {b[k].id : k \in {k \in 1..Len(b) : \E r \in TargetRuns(b, target) : r[1] <= k /\ k <= r[2]}}

(***************************************************************************)
(* del_in_word                                                             *)
(***************************************************************************)
\* C1: after del_in_word(target), no character event of a closed maximal run
\* spelling target is left in the body, however many such runs there are.
DelRemovesEveryOccurrence ==
    Called("del_in_word") =>
        \A k \in 1..Len(body) : body[k].id \notin TargetIds(pre.body, op.word)

\* C2: after del_in_word(target), the events that are not characters of a
\* word equal to target are all still there, unchanged and in their order.
DelRemovesNothingElse ==
    Called("del_in_word") =>
        LET Other(e) == e.id \notin TargetIds(pre.body, op.word)
        IN  SelectSeq(body, Other) = SelectSeq(pre.body, Other)

(***************************************************************************)
(* keep                                                                    *)
(***************************************************************************)
\* C3: keep with one range, start <= end, on a non-empty sorted stream ends
\* without error and leaves the events at indices [startIndex, endIndex + 1).
KeepRetainsRange ==
    (/\ Called("keep")
     /\ Len(op.ranges) = 1
     /\ op.ranges[1][1] <= op.ranges[1][2]
     /\ Len(pre.body) > 0
     /\ Sorted(timestamps(pre.body)))
        => /\ err = ""
           /\ Untimed(body)
                  = Untimed(Slice(pre.body, Resolved[1][1], Resolved[1][2] + 1))

(***************************************************************************)
(* excise                                                                  *)
(***************************************************************************)
\* C4: excise with at least one range, the ranges sorted, non-overlapping and
\* each with start <= end, leaves exactly the events whose index lies in no
\* resolved [startIndex, endIndex), once each, in order, kind and data intact.
ExciseRetainsOthers ==
    (Called("excise") /\ Len(op.ranges) >= 1 /\ RangesOk(op.ranges))
        => LET Outside(e) == ~InResolved(e.id - 1)
           IN  Untimed(body) = Untimed(SelectSeq(pre.body, Outside))

\* two ranges cut a stream of three events down to its first and last event
ExciseWitness ==
    /\ Called("excise")
    /\ Len(op.ranges) = 2
    /\ RangesOk(op.ranges)
    /\ err = ""
    /\ Len(pre.body) = 3
    /\ Len(body) = 2
    /\ body[1].id = 1
    /\ body[2].id = 3

(***************************************************************************)
(* quantize                                                                *)
(***************************************************************************)
\* C5: quantize(maxDelay) keeps the first timestamp and makes every gap
\* min(maxDelay, the gap before the call); 0 or 1 events are left as they are.
QuantizeCapsGaps ==
    Called("quantize") =>
        /\ err = ""
        /\ Untimed(body) = Untimed(pre.body)
        /\ Len(body) > 0 => body[1].ts = pre.body[1].ts
        /\ \A i \in 2..Len(body) : Gap(body, i) = Min(op.num, Gap(pre.body, i))
        /\ \A i \in 2..Len(body) : Gap(body, i) <= op.num
        /\ Len(pre.body) <= 1 => body = pre.body

\* one gap above the maximum delay is capped, a positive one below it is kept
QuantizeWitness ==
    /\ Called("quantize")
    /\ Len(body) = 3
    /\ \E i, j \in 2..3 :
          /\ Gap(pre.body, i) > op.num
          /\ Gap(body, i) = op.num
          /\ Gap(pre.body, j) > 0
          /\ Gap(pre.body, j) <= op.num
          /\ Gap(body, j) = Gap(pre.body, j)

(***************************************************************************)
(* renormalize                                                             *)
(***************************************************************************)
\* C6: renormalize on an empty event sequence ends without error and leaves
\* header and body as they were.
RenormalizeEmptyNoop ==
    (Called("renormalize") /\ Len(pre.body) = 0)
        => err = "" /\ body = pre.body /\ header = pre.header

(***************************************************************************)
(* speed                                                                   *)
(***************************************************************************)
\* C7: speed(ranges, factor), factor not 0, with non-overlapping ranges keeps
\* the first timestamp, makes every gap inside a resolved range the gap before
\* the call divided by factor and keeps every other gap; with factor 1 every
\* timestamp is kept, for any ranges.
SpeedScalesGaps ==
    (Called("speed") /\ op.num # 0) =>
        /\ err = ""
        /\ Untimed(body) = Untimed(pre.body)
        /\ NonOverlapping(op.ranges) =>
              /\ Len(body) > 0 => body[1].ts = pre.body[1].ts
              /\ \A i \in 2..Len(body) :
                    IF InResolved(i - 1)
                    THEN Gap(body, i) * op.num = Gap(pre.body, i)
                    ELSE Gap(body, i) = Gap(pre.body, i)
        /\ op.num = 1 => timestamps(body) = timestamps(pre.body)

\* factor 2 halves a gap inside the range and keeps a gap outside it
SpeedWitness ==
    /\ Called("speed")
    /\ op.num = 2
    /\ Len(op.ranges) = 1
    /\ Len(body) = 3
    /\ \E i, j \in 2..3 :
          /\ InResolved(i - 1)
          /\ Gap(pre.body, i) > 0
          /\ Gap(body, i) * 2 = Gap(pre.body, i)
          /\ ~InResolved(j - 1)
          /\ Gap(pre.body, j) > 0
          /\ Gap(body, j) = Gap(pre.body, j)

(***************************************************************************)
(* no partial application                                                  *)
(***************************************************************************)
\* C8: a call that ends in an error leaves header and body as they were.
NoPartialApplication ==
    err # "" => body = pre.body /\ header = pre.header

(***************************************************************************)
(* smush                                                                   *)
(***************************************************************************)
\* C9: smush(start) on a sorted, non-negative stream puts every event that
\* was before start at time 0, adds and removes no event, and leaves no gap
\* above the default maximum delay.
SmushCollapsesStart ==
    (Called("smush") /\ Monotone(pre.body)) =>
        /\ err = ""
        /\ Untimed(body) = Untimed(pre.body)
        /\ \A i \in 1..Len(body) : pre.body[i].ts < op.num => body[i].ts = 0
        /\ \A i \in 2..Len(body) : Gap(body, i) <= DefaultMaxDelay

\* an event after time 0 is moved to 0 and a long gap behind it is capped
SmushWitness ==
    /\ Called("smush")
    /\ Monotone(pre.body)
    /\ Len(body) = 3
    /\ pre.body[2].ts > 0
    /\ pre.body[2].ts < op.num
    /\ body[2].ts = 0
    /\ pre.body[3].ts >= op.num
    /\ pre.body[3].ts > DefaultMaxDelay
    /\ body[3].ts = DefaultMaxDelay

(***************************************************************************)
(* chaining                                                                *)
(***************************************************************************)
\* C10: from a sorted, non-negative stream, after any sequence of successful
\* calls of renormalize, quantize(maxDelay >= 0), speed(ranges, factor > 0),
\* smush, excise(ranges) and del_in_word, the ranges sorted, non-overlapping
\* and with start <= end, the timestamps are still sorted and non-negative.
ChainKeepsMonotone == err = "" => Monotone(body)

\* a chain has removed the first event and halved a gap of what was left
ChainWitness ==
    /\ err = ""
    /\ budget = 0
    /\ Len(body) = 2
    /\ body[1].id > 1
    /\ Gap(body, 2) * 2 = TicksPerSecond

====
